---- MODULE Spec2Model ----
(***************************************************************************)
(* Model of src/logger.js: the connectivity classifier                     *)
(* (checkUserIsBackOnFullConnection), the flush coordinator                *)
(* (attemptToEmptyLocalLogs), the local buffering path (logLocally,        *)
(* formatLogEntry, removeKeysFromErrorLog) and the dispatcher (mainLog).   *)
(*                                                                         *)
(* Every promise continuation of the source is one action: call chains     *)
(* interleave only at the awaits / .then boundaries, as on the JS event    *)
(* loop.  A storage operation acts on the key when it is called; the chain *)
(* that awaits it goes on in a later action, when it has settled.          *)
(***************************************************************************)
EXTENDS Integers, Sequences, FiniteSets, TLC

\* ------------------------------------------------------------- bounds
\* Wall-clock seconds the model runs over (Date#toString has 1 s resolution).
MaxClock == 5

\* Seconds the specification of concurrent dispatches runs over.
MaxClockConcurrent == 2

\* Seconds the specification recording the history of the flush runs over.
MaxClockHistory == 3

\* The concurrent dispatch call chains.
Chains == {"d1", "d2"}

\* The call chains of attemptToEmptyLocalLogs that can be in flight together.
Flushes == {"f1", "f2"}

\* ---------------------------------------------------------- constants
\* Estimated size ceiling (src/logger.js:10, value from constants/params),
\* scaled so that a three-entry buffer meets it and a two-entry one does not.
MAX_LOCAL_ERROR_LOG_SIZE == 2000

\* Length of String(new Date()), the key format shown at src/logger.js:141.
DateKeyLen == 55

\* ---------------------------------------------------------- JS values
\* A JS value is [t |-> its kind, v |-> its text].
JSString(s) == [t |-> "string", v |-> s]
JSNumber == [t |-> "number", v |-> "42"]
JSNull == [t |-> "null", v |-> "null"]

\* typeof (null is an 'object' for typeof)
TypeOf(x) == IF x.t = "null" THEN "object" ELSE x.t

\* The three public wrappers log / warn / error pass these types.
WrapperTypes == {"log", "warn", "error"}
MessageArgs == {JSString("A"), JSNumber}
ExtraArgs == {JSNull, JSNumber}

\* Length of the text of a JS string.
TextLen(s) ==
  CASE s = "log" -> 3
    [] s = "warn" -> 4
    [] s = "error" -> 5
    [] s = "A" -> 1
    [] s = "42" -> 2
    [] s = "null" -> 4
    [] OTHER -> 0

\* ------------------------------------------------- connectivity states
Generations == {"null", "2g", "3g", "4g"}

\* details of a NetInfo state: null for none/unknown, an object otherwise;
\* cellularGeneration is a field of the cellular details only.
NoDetails == [present |-> FALSE, cellularGeneration |-> "undefined"]
PlainDetails == [present |-> TRUE, cellularGeneration |-> "undefined"]
CellDetails(g) == [present |-> TRUE, cellularGeneration |-> g]

NetState(c, ty, d) == [isConnected |-> c, type |-> ty, details |-> d]

NetStates ==
  {NetState(FALSE, "none", NoDetails)}
    \cup {NetState(c, "unknown", NoDetails) : c \in BOOLEAN}
    \cup {NetState(c, ty, PlainDetails) : c \in BOOLEAN, ty \in {"wifi", "other"}}
    \cup {NetState(c, "cellular", CellDetails(g)) : c \in BOOLEAN, g \in Generations}

\* The states the probes of the concurrent specification settle with: one
\* per way of being strong, one per way of being weak.
ProbeStates ==
  {NetState(TRUE, "wifi", PlainDetails), NetState(TRUE, "cellular", CellDetails("4g")),
   NetState(TRUE, "cellular", CellDetails("3g")), NetState(FALSE, "wifi", PlainDetails),
   NetState(FALSE, "none", NoDetails)}

\* ------------------------------------------------ the persisted buffer
\* The text stored under the LOGGER key: the JSON members in textual order.
\* A member is [key |-> second of the Date key, val |-> <<type, message, extra>>],
\* val standing for `${type} - ${message} - extra data : ${JSON.stringify(extra)}`.
Absent == [present |-> FALSE, text |-> <<>>]
Stored(text) == [present |-> TRUE, text |-> text]

\* A JS object with string keys: the keys in insertion order, and the values.
EmptyObject == [keys |-> <<>>, vals |-> <<>>]

RECURSIVE IndexOf(_, _, _)
IndexOf(seq, k, i) ==
  IF i > Len(seq) THEN 0
  ELSE IF seq[i] = k THEN i ELSE IndexOf(seq, k, i + 1)

\* obj[k] = v : an existing key keeps its place, a new key goes last.
SetKey(obj, k, v) ==
  LET i == IndexOf(obj.keys, k, 1) IN
    IF i = 0
    THEN [keys |-> Append(obj.keys, k), vals |-> Append(obj.vals, v)]
    ELSE [keys |-> obj.keys, vals |-> [obj.vals EXCEPT ![i] = v]]

JSONparse(text) ==
  [keys |-> [i \in 1..Len(text) |-> text[i].key],
   vals |-> [i \in 1..Len(text) |-> text[i].val]]

JSONstringify(obj) ==
  [i \in 1..Len(obj.keys) |-> [key |-> obj.keys[i], val |-> obj.vals[i]]]

ValLen(val) == TextLen(val[1]) + 3 + TextLen(val[2]) + 16 + TextLen(val[3])

RECURSIVE MembersLen(_, _)
MembersLen(text, i) ==
  IF i > Len(text) THEN 0
  ELSE DateKeyLen + ValLen(text[i].val) + 5 + MembersLen(text, i + 1)

\* existingErrorLog.length
StringLength(text) ==
  2 + MembersLen(text, 1) + (IF Len(text) > 1 THEN Len(text) - 1 ELSE 0)

\* ------------------------------------------------------ pure functions
Truthy(g) == g \notin {"null", "undefined", ""}

\* The classifier with the test that the previous generation is not 4g left out.
checkUserIsBackOnFullConnection_NoPrev4gTest(prevConnectionType, prevConnectionDetails, connectionType, connectionDetails) ==
  IF ~Truthy(prevConnectionType) /\ connectionType = "wifi" THEN "true"
  ELSE IF prevConnectionType = "none" /\ connectionType = "wifi" THEN "true"
  ELSE IF prevConnectionType = "unknow" /\ connectionType = "wifi" THEN "true"
  ELSE IF prevConnectionType = "cellular"
    THEN IF ~prevConnectionDetails.present THEN "TypeError"
         ELSE IF ~Truthy(prevConnectionDetails.cellularGeneration) THEN "false"
         ELSE IF ~connectionDetails.present THEN "TypeError"
         ELSE IF Truthy(connectionDetails.cellularGeneration)
                 /\ connectionDetails.cellularGeneration = "4g"
           THEN "true"
         ELSE "false"
  ELSE "false"

\* src/logger.js:22-50.  prevConnectionType "" is the absent (falsy) type.
\* Reading .cellularGeneration of null details raises a TypeError.
checkUserIsBackOnFullConnection(prevConnectionType, prevConnectionDetails, connectionType, connectionDetails) ==
  IF ~Truthy(prevConnectionType) /\ connectionType = "wifi" THEN "true"
  ELSE IF prevConnectionType = "none" /\ connectionType = "wifi" THEN "true"
  ELSE IF prevConnectionType = "unknow" /\ connectionType = "wifi" THEN "true"
  ELSE IF prevConnectionType = "cellular"
    THEN IF ~prevConnectionDetails.present THEN "TypeError"
         ELSE IF ~(Truthy(prevConnectionDetails.cellularGeneration)
                   /\ prevConnectionDetails.cellularGeneration # "4g")
           THEN "false"
         ELSE IF ~connectionDetails.present THEN "TypeError"
         ELSE IF Truthy(connectionDetails.cellularGeneration)
                 /\ connectionDetails.cellularGeneration = "4g"
           THEN "true"
         ELSE "false"
  ELSE "false"

\* checkArguments without the test of extra.
checkArguments_IgnoresExtra(type, message, extra) ==
  /\ TypeOf(type) = "string"
  /\ TypeOf(message) = "string"

\* src/logger.js:117-132 (the console.warn of dev mode is emitted by mainLog's
\* action, which records it).
checkArguments(type, message, extra) ==
  /\ TypeOf(type) = "string"
  /\ TypeOf(message) = "string"
  /\ TypeOf(extra) = "object"

\* JSON.stringify(extra) as it appears inside the entry's value.
ExtraText(extra) == extra.v

\* src/logger.js:145-153; now is the second new Date() falls in.
formatLogEntry(type, message, extra, parsedErrorLog, now) ==
  SetKey(parsedErrorLog, now, <<type.v, message.v, ExtraText(extra)>>)

\* src/logger.js:166-179: index runs from length down to the first index
\* above length / 2, each key being inserted into the new object in that order.
removeKeysFromErrorLog(parsedErrorLog) ==
  LET currentLogLength == Len(parsedErrorLog.keys)
      kept == currentLogLength - (currentLogLength \div 2)
  IN [keys |-> [j \in 1..kept |-> parsedErrorLog.keys[currentLogLength - j + 1]],
      vals |-> [j \in 1..kept |-> parsedErrorLog.vals[currentLogLength - j + 1]]]

\* logLocally buffering every type, informational events included.
BufferedType_Any(type) == TRUE

\* src/logger.js:190
BufferedType(type) == type.v = "warn" \/ type.v = "error"

\* logLocally comparing the length in characters, not in bits, to the ceiling.
LocalLogText_SizeInChars(type, message, extra, existingErrorLog, now) ==
  IF ~existingErrorLog.present
  THEN JSONstringify(formatLogEntry(type, message, extra, EmptyObject, now))
  ELSE LET errorLogSize == StringLength(existingErrorLog.text)
           parsedErrorLog == JSONparse(existingErrorLog.text)
       IN IF errorLogSize < MAX_LOCAL_ERROR_LOG_SIZE
          THEN JSONstringify(formatLogEntry(type, message, extra, parsedErrorLog, now))
          ELSE JSONstringify(formatLogEntry(type, message, extra,
                                            removeKeysFromErrorLog(parsedErrorLog), now))

\* src/logger.js:195-222: the text logLocally hands to saveInAsyncStorage.
LocalLogText(type, message, extra, existingErrorLog, now) ==
  IF ~existingErrorLog.present
  THEN JSONstringify(formatLogEntry(type, message, extra, EmptyObject, now))
  ELSE LET errorLogSize == StringLength(existingErrorLog.text) * 8
           parsedErrorLog == JSONparse(existingErrorLog.text)
       IN IF errorLogSize < MAX_LOCAL_ERROR_LOG_SIZE
          THEN JSONstringify(formatLogEntry(type, message, extra, parsedErrorLog, now))
          ELSE JSONstringify(formatLogEntry(type, message, extra,
                                            removeKeysFromErrorLog(parsedErrorLog), now))

\* The dispatch test taking any connected cellular link as strong.
StrongConnection_AnyCellular(state) ==
  state.isConnected /\ (state.type = "wifi" \/ state.type = "cellular")

\* src/logger.js:267-271
StrongConnection(state) ==
  LET cellularGeneration ==
        IF state.type = "cellular" THEN state.details.cellularGeneration ELSE "null"
  IN state.isConnected
       /\ (state.type = "wifi"
             \/ (state.type = "cellular" /\ cellularGeneration = "4g"))

\* ------------------------------------------------ storage collaborators
\* helpers/common is not part of the sources; modelled from the spec's 4.4.
\* checkAsyncStorage: the stored text, or false when the key is absent.
checkAsyncStorage(st) == st
\* saveInAsyncStorage: overwrites the key; a failed write leaves it as it was.
saveInAsyncStorage(st, text, ok) == IF ok THEN Stored(text) ELSE st
\* asyncRemoveItem: deletes the key; a failed remove leaves it in place.
asyncRemoveItem(st, outcome) == IF outcome = "ok" THEN Absent ELSE st

\* ---------------------------------------------------------------- state
VARIABLES
  dev,       \* __DEV__
  clock,     \* current second of the wall clock
  store,     \* the LOGGER key of the persistent store
  ch,        \* the dispatch call chains
  fl,        \* the attemptToEmptyLocalLogs call chains
  cl,        \* the last call of the classifier by the connection listener
  hist       \* history of the attemptToEmptyLocalLogs chains, recorded when hist.on

vars == <<dev, clock, store, ch, fl, cl, hist>>

NoArg == JSNull
NoState == NetState(FALSE, "none", NoDetails)

IdleChain ==
  [pc |-> "idle", type |-> NoArg, message |-> NoArg, extra |-> NoArg,
   state |-> NoState, loaded |-> Absent,
   route |-> "none", outcome |-> "none", ret |-> "none", diag |-> "none"]

\* pending: what the asyncRemoveItem that has been called will settle with.
IdleFlush ==
  [pc |-> "idle", loaded |-> Absent, batch |-> EmptyObject, sends |-> 0,
   result |-> "none", pending |-> "none", remove |-> "none", diag |-> "none"]

\* The history of a chain.  batch: the text it last handed to bulkSendLog;
\* kept: every write of the key by another chain since it last read the
\* buffer kept the entries the buffer held; after: how its call before the
\* one that is reading ended; at: the second at which it called
\* asyncRemoveItem (0: not yet).
NoFlushHistory == [batch |-> <<>>, kept |-> TRUE, after |-> "none", at |-> 0]

\* on: the history is recorded.
NoHistory == [on |-> FALSE, calls |-> [f \in Flushes |-> NoFlushHistory]]

\* How a call of attemptToEmptyLocalLogs that has ended went.
FlushEnded(f) ==
  IF f.pc # "done" \/ f.sends = 0 THEN "none"
  ELSE IF f.result # "ok" THEN "sendFailed"
  ELSE IF f.remove # "ok" THEN "removeFailed"
  ELSE "delivered"

NoCall == [prev |-> NoState, prevSet |-> FALSE, cur |-> NoState, result |-> "none"]

Init ==
  /\ dev \in BOOLEAN
  /\ clock = 1
  /\ store = Absent
  /\ ch = [d \in Chains |-> IdleChain]
  /\ fl = [f \in Flushes |-> IdleFlush]
  /\ cl = NoCall
  /\ hist = NoHistory

\* ------------------------------------------------------------ dispatch
\* mainLog rejecting invalid arguments before it looks at the mode.
mainLog_ValidatesFirst(d, type, message, extra) ==
  /\ ch[d].pc \in {"idle", "done"}
  /\ ch' = [ch EXCEPT ![d] =
       IF ~checkArguments(type, message, extra)
       THEN [IdleChain EXCEPT !.pc = "done", !.outcome = "rejected", !.ret = "false",
               !.diag = IF dev THEN "warn" ELSE "none"]
       ELSE IF dev
       THEN [IdleChain EXCEPT !.pc = "done", !.outcome = "devlog", !.ret = "true",
               !.diag = "log"]
       ELSE [IdleChain EXCEPT !.pc = "probing", !.type = type, !.message = message,
               !.extra = extra, !.ret = "null"]]
  /\ UNCHANGED <<dev, clock, store, fl, cl, hist>>

\* src/logger.js:245-259 and 285, entered through log / warn / error
\* (src/logger.js:288-298).  Dev mode prints and returns true; invalid
\* arguments return false; otherwise NetInfo.fetch() is called, null returned.
mainLog(d, type, message, extra) ==
  /\ ch[d].pc \in {"idle", "done"}
  /\ ch' = [ch EXCEPT ![d] =
       IF dev
       THEN [IdleChain EXCEPT !.pc = "done", !.outcome = "devlog", !.ret = "true",
               !.diag = IF checkArguments(type, message, extra)
                        THEN "log" ELSE "warn+log"]
       ELSE IF ~checkArguments(type, message, extra)
       THEN [IdleChain EXCEPT !.pc = "done", !.outcome = "rejected", !.ret = "false"]
       ELSE [IdleChain EXCEPT !.pc = "probing", !.type = type, !.message = message,
               !.extra = extra, !.ret = "null"]]
  /\ UNCHANGED <<dev, clock, store, fl, cl, hist>>

\* NetInfo.fetch() resolves with a state.
ProbeResolve(d, s) ==
  /\ ch[d].pc = "probing"
  /\ ch' = [ch EXCEPT ![d].pc = "probed", ![d].state = s]
  /\ UNCHANGED <<dev, clock, store, fl, cl, hist>>

\* A rejected NetInfo.fetch() falling back to logLocally.
ProbeReject_FallsBack(d) ==
  /\ ch[d].pc = "probing"
  /\ ch' = [ch EXCEPT ![d] =
       [ch[d] EXCEPT !.pc = "loading", !.route = "logLocally", !.diag = "error",
                     !.loaded = checkAsyncStorage(store)]]
  /\ UNCHANGED <<dev, clock, store, fl, cl, hist>>

\* NetInfo.fetch() rejects: src/logger.js:279-284.
ProbeReject(d) ==
  /\ ch[d].pc = "probing"
  /\ ch' = [ch EXCEPT ![d] =
       [IdleChain EXCEPT !.pc = "done", !.outcome = "probeFailed",
                         !.ret = "null", !.diag = "error"]]
  /\ UNCHANGED <<dev, clock, store, fl, cl, hist>>

\* The .then callback, src/logger.js:260-278, down to the first await of
\* logLocally (src/logger.js:188-193): checkAsyncStorage has been called and
\* reads the key as it is now; the chain waits for it to settle.
RouteLog(d) ==
  /\ ch[d].pc = "probed"
  /\ ch' = [ch EXCEPT ![d] =
       IF StrongConnection(ch[d].state)
       THEN [IdleChain EXCEPT !.pc = "done", !.route = "sendLog",
                              !.outcome = "sent", !.ret = "null"]
       ELSE IF ~BufferedType(ch[d].type)
       THEN [IdleChain EXCEPT !.pc = "done", !.route = "logLocally",
                              !.outcome = "dropped", !.ret = "null"]
       ELSE [ch[d] EXCEPT !.pc = "loading", !.route = "logLocally",
                          !.state = NoState,
                          !.loaded = checkAsyncStorage(store)]]
  /\ UNCHANGED <<dev, clock, store, fl, cl, hist>>

\* The checkAsyncStorage of logLocally rejects: the catch of
\* src/logger.js:224-231 ends the chain with console.error.
LoadReject(d) ==
  /\ ch[d].pc = "loading"
  /\ ch' = [ch EXCEPT ![d] =
       [IdleChain EXCEPT !.pc = "done", !.route = "logLocally",
                         !.outcome = "loadFailed", !.ret = "null",
                         !.diag = "error"]]
  /\ UNCHANGED <<dev, clock, store, fl, cl, hist>>

\* The key becoming written keeps the entries of the buffer unless the
\* write trims, writes over a key, writes a buffer that was read before they
\* were added, or removes the key.
KeepsEntries(written) ==
  \A i \in 1..Len(store.text) :
    \E j \in 1..Len(written.text) : written.text[j] = store.text[i]

\* The history once the chain by has made the key written, for the other
\* chains that have read the buffer.
HistoryOfWrite(written, by) ==
  [hist EXCEPT !.calls =
     [f \in Flushes |->
        IF fl[f].pc = "idle" \/ f = by THEN hist.calls[f]
        ELSE [hist.calls[f] EXCEPT !.kept = hist.calls[f].kept /\ KeepsEntries(written)]]]

\* logLocally after its await, src/logger.js:195-222: the save is called
\* (not awaited) with the text built from what was loaded.
SaveLog(d, saveOk) ==
  /\ ch[d].pc = "loading"
  /\ LET written == saveInAsyncStorage(store,
                      LocalLogText(ch[d].type, ch[d].message, ch[d].extra,
                                   ch[d].loaded, clock),
                      saveOk)
     IN /\ store' = written
        /\ hist' = IF hist.on THEN HistoryOfWrite(written, d) ELSE hist
  /\ ch' = [ch EXCEPT ![d] =
       [IdleChain EXCEPT !.pc = "done", !.route = "logLocally",
                         !.outcome = IF saveOk THEN "saved" ELSE "saveFailed",
                         !.ret = "null"]]
  /\ UNCHANGED <<dev, clock, fl, cl>>

\* --------------------------------------------------------------- flush
\* src/logger.js:62-64: a call of attemptToEmptyLocalLogs (any number may be
\* in flight, one per chain) calls checkAsyncStorage, which reads the key as
\* it is now, and waits for it to settle.
AttemptLoad(f) ==
  /\ fl[f].pc \in {"idle", "done"}
  /\ fl' = [fl EXCEPT ![f] =
       [IdleFlush EXCEPT !.pc = "loading", !.loaded = checkAsyncStorage(store)]]
  /\ hist' = IF hist.on
             THEN [hist EXCEPT !.calls[f].kept = TRUE, !.calls[f].at = 0,
                               !.calls[f].after = FlushEnded(fl[f])]
             ELSE hist
  /\ UNCHANGED <<dev, clock, store, ch, cl>>

\* The checkAsyncStorage of the flush rejects: the catch of
\* src/logger.js:101-106 ends the call with console.error.
AttemptLoadReject(f) ==
  /\ fl[f].pc = "loading"
  /\ fl' = [fl EXCEPT ![f] = [IdleFlush EXCEPT !.pc = "done", !.diag = "error"]]
  /\ hist' = IF hist.on THEN [hist EXCEPT !.calls[f] = NoFlushHistory] ELSE hist
  /\ UNCHANGED <<dev, clock, store, ch, cl>>

\* The flush calling bulkSendLog without the test that something is stored.
AttemptSend_NoStoredTest(f) ==
  /\ fl[f].pc = "loading"
  /\ fl' = [fl EXCEPT ![f] =
       [fl[f] EXCEPT !.pc = "sending", !.sends = fl[f].sends + 1,
                     !.batch = JSONparse(fl[f].loaded.text)]]
  /\ hist' = IF hist.on
             THEN [hist EXCEPT !.calls[f].batch = fl[f].loaded.text,
                               !.calls[f].after = "none"]
             ELSE hist
  /\ UNCHANGED <<dev, clock, store, ch, cl>>

\* src/logger.js:66-71: the read has resolved; nothing stored ends the call,
\* otherwise the parsed log is handed to bulkSendLog.
AttemptSend(f) ==
  /\ fl[f].pc = "loading"
  /\ fl' = [fl EXCEPT ![f] =
       IF ~fl[f].loaded.present
       THEN [fl[f] EXCEPT !.pc = "done"]
       ELSE [fl[f] EXCEPT !.pc = "sending", !.sends = fl[f].sends + 1,
                          !.batch = JSONparse(fl[f].loaded.text)]]
  /\ hist' = IF hist.on
             THEN [hist EXCEPT !.calls[f].batch = fl[f].loaded.text,
                               !.calls[f].after = "none"]
             ELSE hist
  /\ UNCHANGED <<dev, clock, store, ch, cl>>

\* The chain once bulkSendLog has settled with result: on ok asyncRemoveItem
\* has been called and will settle with outcome; otherwise the call is over.
AfterSend(f, result, outcome) ==
  IF result = "ok"
  THEN [fl[f] EXCEPT !.pc = "removing", !.result = result, !.pending = outcome]
  ELSE [fl[f] EXCEPT !.pc = "done", !.loaded = Absent, !.batch = EmptyObject,
                     !.result = result,
                     !.diag = IF result = "throw" THEN "error" ELSE "none"]

\* The flush removing the key whatever bulkSendLog answered.
AttemptClear_Always(f, result, outcome) ==
  /\ fl[f].pc = "sending"
  /\ (result # "ok") => outcome = "none"
  /\ (result = "ok") => outcome # "none"
  /\ store' = Absent
  /\ hist' = IF hist.on
             THEN [HistoryOfWrite(Absent, f) EXCEPT !.calls[f].at = IF result = "ok" THEN clock ELSE 0]
             ELSE hist
  /\ fl' = [fl EXCEPT ![f] = AfterSend(f, result, outcome)]
  /\ UNCHANGED <<dev, clock, ch, cl>>

\* The flush removing the key when bulkSendLog fails or throws, not when it succeeds.
AttemptClear_OnFailure(f, result, outcome) ==
  /\ fl[f].pc = "sending"
  /\ (result # "ok") => outcome = "none"
  /\ (result = "ok") => outcome # "none"
  /\ LET written == IF result # "ok" THEN Absent ELSE store
     IN /\ store' = written
        /\ hist' = IF hist.on
                   THEN [HistoryOfWrite(written, f) EXCEPT !.calls[f].at = IF result = "ok" THEN clock ELSE 0]
                   ELSE hist
  /\ fl' = [fl EXCEPT ![f] = AfterSend(f, result, outcome)]
  /\ UNCHANGED <<dev, clock, ch, cl>>

\* The flush removing the key again, with success, when asyncRemoveItem fails.
AttemptClear_RetriesRemove(f, result, outcome) ==
  /\ fl[f].pc = "sending"
  /\ (result # "ok") => outcome = "none"
  /\ (result = "ok") => outcome # "none"
  /\ LET written == IF result = "ok" THEN Absent ELSE store
     IN /\ store' = written
        /\ hist' = IF hist.on
                   THEN [HistoryOfWrite(written, f) EXCEPT !.calls[f].at = IF result = "ok" THEN clock ELSE 0]
                   ELSE hist
  /\ fl' = [fl EXCEPT ![f] = AfterSend(f, result, outcome)]
  /\ UNCHANGED <<dev, clock, ch, cl>>

\* src/logger.js:71-76: bulkSendLog settles with result in {ok (truthy),
\* fail (falsy), throw}.  A falsy answer ends the call, a throw ends it in the
\* catch of src/logger.js:93-99; on ok asyncRemoveItem is called, acts on the
\* key and will settle with outcome in {ok, error (returned), throw}.
AttemptClear(f, result, outcome) ==
  /\ fl[f].pc = "sending"
  /\ (result # "ok") => outcome = "none"
  /\ (result = "ok") => outcome # "none"
  /\ LET written == IF result = "ok" THEN asyncRemoveItem(store, outcome) ELSE store
     IN /\ store' = written
        /\ hist' = IF hist.on
                   THEN [HistoryOfWrite(written, f) EXCEPT !.calls[f].at = IF result = "ok" THEN clock ELSE 0]
                   ELSE hist
  /\ fl' = [fl EXCEPT ![f] = AfterSend(f, result, outcome)]
  /\ UNCHANGED <<dev, clock, ch, cl>>

\* src/logger.js:78-91: asyncRemoveItem has settled; an error returned or
\* thrown is reported with console.error, and the call is over.
RemoveSettle(f) ==
  /\ fl[f].pc = "removing"
  /\ fl' = [fl EXCEPT ![f] =
       [fl[f] EXCEPT !.pc = "done", !.loaded = Absent, !.batch = EmptyObject,
                     !.remove = fl[f].pending, !.pending = "none",
                     !.diag = IF fl[f].pending \in {"error", "throw"}
                              THEN "error" ELSE "none"]]
  /\ UNCHANGED <<dev, clock, store, ch, cl, hist>>

\* ----------------------------------------------------------------- time
Tick(last) ==
  /\ clock < last
  /\ clock' = clock + 1
  /\ UNCHANGED <<dev, store, ch, fl, cl, hist>>

\* The steps of the dispatch chains D, called through the wrappers T, and of
\* the flush chains F, probes settling with a state of P.
Step(D, F, P, T) ==
  \/ \E d \in D, t \in T, m \in MessageArgs, e \in ExtraArgs :
       mainLog(d, JSString(t), m, e)
  \/ \E d \in D, s \in P : ProbeResolve(d, s)
  \/ \E d \in D : ProbeReject(d)
  \/ \E d \in D : RouteLog(d)
  \/ \E d \in D : LoadReject(d)
  \/ \E d \in D, saveOk \in BOOLEAN : SaveLog(d, saveOk)
  \/ \E f \in F : AttemptLoad(f)
  \/ \E f \in F : AttemptLoadReject(f)
  \/ \E f \in F : AttemptSend(f)
  \/ \E f \in F, result \in {"ok", "fail", "throw"}, outcome \in {"none", "ok", "error", "throw"} :
       AttemptClear(f, result, outcome)
  \/ \E f \in F : RemoveSettle(f)

\* A dispatch chain and a flush chain at a time, over MaxClock seconds.
Next == Step({"d1"}, {"f1"}, NetStates, WrapperTypes) \/ Tick(MaxClock)

Spec == Init /\ [][Next]_vars

\* A dispatch chain logging errors and overlapping calls of
\* attemptToEmptyLocalLogs, over MaxClockHistory seconds, with the history of
\* the flush chains recorded.
InitHistory ==
  /\ dev \in BOOLEAN
  /\ clock = 1
  /\ store = Absent
  /\ ch = [d \in Chains |-> IdleChain]
  /\ fl = [f \in Flushes |-> IdleFlush]
  /\ cl = NoCall
  /\ hist = [NoHistory EXCEPT !.on = TRUE]

NextHistory == Step({"d1"}, Flushes, ProbeStates, {"error"}) \/ Tick(MaxClockHistory)

SpecHistory == InitHistory /\ [][NextHistory]_vars

\* Concurrent dispatch chains and a flush, over MaxClockConcurrent seconds.
NextConcurrent == Step(Chains, {"f1"}, ProbeStates, WrapperTypes) \/ Tick(MaxClockConcurrent)

SpecConcurrent == Init /\ [][NextConcurrent]_vars

\* ------------------------------------------------- classifier, in isolation
\* The connection listener hands the previous and the current NetInfo state
\* to checkUserIsBackOnFullConnection; the first notification has no previous.
Classify(hasPrev, prev, cur) ==
  /\ cl' = [prev |-> IF hasPrev THEN prev ELSE NoState, prevSet |-> hasPrev, cur |-> cur,
            result |-> checkUserIsBackOnFullConnection(
                         IF hasPrev THEN prev.type ELSE "",
                         IF hasPrev THEN prev.details ELSE NoDetails,
                         cur.type, cur.details)]
  /\ UNCHANGED <<dev, clock, store, ch, fl, hist>>

NextClassifier ==
  \E hasPrev \in BOOLEAN, prev \in NetStates, cur \in NetStates :
    Classify(hasPrev, prev, cur)

SpecClassifier == Init /\ [][NextClassifier]_vars

\* =============================================================== claims
Keys(text) == {text[i].key : i \in 1..Len(text)}
Members(text) == {text[i] : i \in 1..Len(text)}

\* The bulkSendLog of flush chain f has settled in this step.
FlushSettles(f) == fl[f].pc = "sending" /\ fl'[f].pc # "sending"

\* ---------------------------------------------------------------- C1
\* C1 as stated: a flush that sent a batch has removed the key if and only if
\* the send reported success, and a flush whose send failed or threw writes
\* nothing.
C1_RemovedIffSendSucceeded ==
  [][\A f \in Flushes :
       FlushSettles(f)
         => /\ ~store'.present <=> fl'[f].result = "ok"
            /\ fl'[f].result # "ok" => store' = store]_vars

\* C1 amended: the remove is attempted if and only if the send reported
\* success, and the key is removed if and only if that remove succeeds too;
\* no other step of the flush, and no failed or throwing send, changes the store.
C1_RemoveAttemptedIffSendSucceeded ==
  [][\A f \in Flushes :
       fl'[f] # fl[f] =>
         /\ FlushSettles(f) => ((fl'[f].pc = "removing") <=> (fl'[f].result = "ok"))
         /\ FlushSettles(f) /\ fl'[f].result = "ok" /\ fl'[f].pending = "ok"
              => ~store'.present
         /\ ~(FlushSettles(f) /\ fl'[f].result = "ok" /\ fl'[f].pending = "ok")
              => store' = store
         /\ fl[f].pc = "removing"
              => fl'[f].pc = "done" /\ fl'[f].remove = fl[f].pending]_vars

\* The send succeeded, the remove did not, and the buffer is still there.
C1_Witness ==
  \E f \in Flushes :
    /\ fl[f].pc = "done" /\ fl[f].sends = 1 /\ fl[f].result = "ok"
    /\ fl[f].remove = "error"
    /\ store.present

\* ---------------------------------------------------------------- C2
\* C2: every entry the flush's remove deletes was in the batch it sent.
C2_ClearedOnlyIfDelivered ==
  [][\A f \in Flushes :
       FlushSettles(f) /\ store.present /\ ~store'.present
         => Members(store.text) \subseteq Members(fl[f].loaded.text)]_vars

\* ---------------------------------------------------------------- C3
\* The probed state is connected on wifi or on cellular 4g.
ConnectedWifiOr4g(s) ==
  s.isConnected
    /\ (s.type = "wifi"
          \/ (s.type = "cellular" /\ s.details.cellularGeneration = "4g"))

\* C3: the .then callback calls sendLog if and only if the probed state is
\* connected on wifi or cellular 4g, and calls logLocally otherwise.
C3_SendIffStrong ==
  [][\A d \in Chains :
       ch[d].pc = "probed" /\ ch'[d].pc # "probed"
         => /\ (ch'[d].route = "sendLog") <=> ConnectedWifiOr4g(ch[d].state)
            /\ ~ConnectedWifiOr4g(ch[d].state) => ch'[d].route = "logLocally"]_vars

\* An event was sent at once.
C3_Witness == \E d \in Chains : ch[d].pc = "done" /\ ch[d].route = "sendLog"

\* ---------------------------------------------------------------- C4
\* The member a dispatch of chain d writes at the current second.
EventMember(d) ==
  [key |-> clock, val |-> <<ch[d].type.v, ch[d].message.v, ch[d].extra.v>>]

\* The buffer an append starts from: nothing, the prior buffer, or what the
\* trim leaves of it when its size estimate meets the ceiling.
AppendBase(prior) ==
  IF ~prior.present THEN <<>>
  ELSE IF StringLength(prior.text) * 8 < MAX_LOCAL_ERROR_LOG_SIZE THEN prior.text
  ELSE JSONstringify(removeKeysFromErrorLog(JSONparse(prior.text)))

\* Chain d, carrying a warning or an error probed on a weak link, runs the
\* .then callback in this step.
WeakDispatchRoutes(d) ==
  /\ ch[d].pc = "probed" /\ ch'[d].pc # "probed"
  /\ ch[d].type.v \in {"warn", "error"}
  /\ ~ConnectedWifiOr4g(ch[d].state)

\* Chain d completes in this step with its read and its write of the store
\* having succeeded, no other chain having written the buffer since it read it.
BufferedDispatchCompletes(d) ==
  /\ ch[d].pc = "loading" /\ ch[d].loaded = store
  /\ ch'[d].pc = "done" /\ ch'[d].outcome = "saved"

\* C4: a warning or an error dispatched on a weak link is not sent but goes
\* to logLocally, which reads the buffer; when no other chain touches the
\* buffer and the store's read and write succeed, the dispatch leaves the
\* buffer as the prior (or trimmed) buffer with the event's entry appended.
C4_EventAppended ==
  [][\A d \in Chains :
       /\ WeakDispatchRoutes(d)
            => /\ ch'[d].route = "logLocally"
               /\ ch'[d].pc = "loading"
               /\ ch'[d].loaded = store
               /\ store' = store
       /\ BufferedDispatchCompletes(d)
            => /\ store'.present
               /\ store'.text = Append(AppendBase(store), EventMember(d))]_vars

\* ---------------------------------------------------------------- C5
\* C5: an informational event probed on a weak or offline link is dropped:
\* the chain ends without loading or saving the buffer and without a send.
C5_InfoDropped ==
  [][\A d \in Chains :
       ch[d].pc = "probed" /\ ch'[d].pc # "probed"
         /\ ch[d].type.v = "log" /\ ~ConnectedWifiOr4g(ch[d].state)
         => /\ store' = store
            /\ ch'[d].pc = "done"
            /\ ch'[d].route # "sendLog"]_vars

\* An informational event was dropped.
C5_Witness == \E d \in Chains : ch[d].pc = "done" /\ ch[d].outcome = "dropped"

\* ---------------------------------------------------------------- C6
\* C6: previous medium absent, none or unknown and current medium wifi
\* classify as an upgrade.
C6_OfflineToWifi ==
  cl.result # "none"
    /\ (~cl.prevSet \/ cl.prev.type \in {"none", "unknown"})
    /\ cl.cur.type = "wifi"
    => cl.result = "true"

\* ---------------------------------------------------------------- C7
\* C7: cellular to cellular is an upgrade if and only if the previous
\* generation is present and not 4g and the current generation is 4g.
C7_CellularUpgrade ==
  cl.result # "none" /\ cl.prevSet
    /\ cl.prev.type = "cellular" /\ cl.cur.type = "cellular"
    => ((cl.result = "true")
          <=> /\ cl.prev.details.cellularGeneration \in {"2g", "3g"}
              /\ cl.cur.details.cellularGeneration = "4g")

\* A cellular link went from 3g to 4g and was classified an upgrade.
C7_Witness ==
  /\ cl.prevSet /\ cl.prev.type = "cellular" /\ cl.cur.type = "cellular"
  /\ cl.prev.details.cellularGeneration = "3g"
  /\ cl.result = "true"

\* ---------------------------------------------------------------- C8
\* C8: a pair that goes from a state dispatch buffers under to a state
\* dispatch sends under is classified an upgrade.
C8_WeakToStrong ==
  cl.result # "none" /\ cl.prevSet
    /\ ~ConnectedWifiOr4g(cl.prev) /\ ConnectedWifiOr4g(cl.cur)
    => cl.result = "true"

\* ---------------------------------------------------------------- C9
\* The n chronologically newest keys of a buffer.
NewestKeys(text, n) ==
  {k \in Keys(text) : Cardinality({k2 \in Keys(text) : k2 > k}) < n}

\* Chain d saves a buffer it trimmed.
TrimmingSave(d) ==
  /\ ch[d].pc = "loading" /\ ch'[d].pc = "done" /\ ch'[d].outcome = "saved"
  /\ ch[d].loaded.present
  /\ StringLength(ch[d].loaded.text) * 8 >= MAX_LOCAL_ERROR_LOG_SIZE

\* C9: a trim keeps the newest half (rounded up) of the loaded entries and
\* discards the others, which are older.
C9_TrimKeepsNewestHalf ==
  [][\A d \in Chains :
       TrimmingSave(d)
         => LET text == ch[d].loaded.text
                newest == NewestKeys(text, Len(text) - (Len(text) \div 2))
            IN /\ \A m \in Members(text) :
                    m.key \in newest /\ m.key # clock => m \in Members(store'.text)
               /\ \A k \in Keys(text) \ newest :
                    k # clock => k \notin Keys(store'.text)]_vars

\* --------------------------------------------------------------- C10
\* C10: the members of the persisted buffer are in the order of their keys.
C10_ChronologicalOrder ==
  store.present
    => \A i, j \in 1..Len(store.text) :
         i < j => store.text[i].key < store.text[j].key

\* --------------------------------------------------------------- C11
\* A buffer of n entries of one severity, hence of one serialized size.
UniformText(n, severity) ==
  [i \in 1..n |-> [key |-> i, val |-> <<severity, "A", "null">>]]

\* The smallest entry count at which the size estimate of such a buffer
\* meets or exceeds the ceiling.
CeilingCount(severity) ==
  CHOOSE n \in 1..(MaxClock + 1) :
    /\ StringLength(UniformText(n, severity)) * 8 >= MAX_LOCAL_ERROR_LOG_SIZE
    /\ \A m \in 1..(n - 1) :
         StringLength(UniformText(m, severity)) * 8 < MAX_LOCAL_ERROR_LOG_SIZE

\* That count, for each severity that is buffered.
CeilingCounts == [severity \in {"warn", "error"} |-> CeilingCount(severity)]

\* Chain d saves a buffer built from a loaded one.
SaveOverLoaded(d) ==
  /\ ch[d].pc = "loading" /\ ch'[d].pc = "done" /\ ch'[d].outcome = "saved"
  /\ ch[d].loaded.present

\* C11: the persisted buffer never holds more entries than the smallest
\* count at which the size estimate meets the ceiling (that count being at
\* least two), and a save drops entries of the buffer it loaded exactly when
\* the estimate of that loaded buffer meets or exceeds the ceiling.
C11_BufferBounded ==
  [][/\ \A severity \in {"warn", "error"} :
          CeilingCounts[severity] >= 2
            /\ store'.present
            /\ (\A i \in 1..Len(store'.text) : store'.text[i].val[1] = severity)
            => Len(store'.text) <= CeilingCounts[severity]
     /\ \A d \in Chains :
          SaveOverLoaded(d)
            => ((\E k \in Keys(ch[d].loaded.text) : k \notin Keys(store'.text))
                  <=> StringLength(ch[d].loaded.text) * 8 >= MAX_LOCAL_ERROR_LOG_SIZE)]_vars

\* The buffer is full after a save that trimmed: it holds as many entries as
\* the ceiling count, the first two in the order only the trim produces.
C11_Witness ==
  /\ store.present /\ Len(store.text) = CeilingCounts["error"]
  /\ \A i \in 1..Len(store.text) : store.text[i].val[1] = "error"
  /\ store.text[1].key > store.text[2].key
  /\ \E d \in Chains : ch[d].pc = "done" /\ ch[d].outcome = "saved"

\* --------------------------------------------------------------- C12
\* Flush chain f, whose last call ended with a send that failed or threw,
\* starts its next call and reads the buffer.
RetryLoads(f) ==
  FlushEnded(fl[f]) = "sendFailed" /\ fl'[f] # fl[f] /\ fl'[f].pc = "loading"

\* C12 as stated: the call that follows a failed send loads, to submit it, a
\* buffer holding every entry of the batch that failed.
C12_RetryHoldsFailedBatch ==
  [][\A f \in Flushes :
       RetryLoads(f)
         => /\ fl'[f].loaded.present
            /\ Members(hist.calls[f].batch) \subseteq Members(fl'[f].loaded.text)]_vars

\* C12 amended: it does when, since the failed call read the buffer, no save
\* of logLocally dropped or rewrote an entry the buffer held (no trim, no
\* write over an existing key, no write of a buffer loaded earlier) and no
\* overlapping call of attemptToEmptyLocalLogs removed the key; what it reads
\* is the whole persisted buffer, entries appended meanwhile included.
C12_RetryHoldsKeptBatch ==
  [][\A f \in Flushes :
       RetryLoads(f) /\ hist.calls[f].kept
         => /\ fl'[f].loaded.present
            /\ Members(hist.calls[f].batch) \subseteq Members(fl'[f].loaded.text)
            /\ fl'[f].loaded = store]_vars

\* After a failed send the next call has read the failed batch and an entry
\* appended in the meantime.
C12_Witness ==
  \E f \in Flushes :
    /\ fl[f].pc = "loading" /\ hist.calls[f].after = "sendFailed"
    /\ Members(hist.calls[f].batch) \subseteq Members(fl[f].loaded.text)
    /\ Len(fl[f].loaded.text) > Len(hist.calls[f].batch)

\* --------------------------------------------------------------- C13
\* The size estimate of a loaded or persisted buffer is below the ceiling.
BelowCeiling(buffer) ==
  buffer.present => StringLength(buffer.text) * 8 < MAX_LOCAL_ERROR_LOG_SIZE

\* Chain d saves its event at a second no buffered entry carries, below the
\* ceiling, no flush having started.
SaveBesideOthers(d) ==
  /\ ch[d].pc = "loading" /\ ch'[d].pc = "done" /\ ch'[d].outcome = "saved"
  /\ \A f \in Flushes : fl[f].pc = "idle"
  /\ clock \notin Keys(store.text)
  /\ BelowCeiling(store) /\ BelowCeiling(ch[d].loaded)

\* C13: when concurrent dispatches of warnings and errors on a weak link
\* save at distinct seconds, below the ceiling and with no flush, each save
\* adds its event and keeps the entries the other dispatches have buffered,
\* so that once all have completed the buffer holds an entry for each.
C13_ConcurrentDispatchesBuffered ==
  [][\A d \in Chains :
       SaveBesideOthers(d)
         => /\ EventMember(d) \in Members(store'.text)
            /\ Members(store.text) \subseteq Members(store'.text)]_vars

\* --------------------------------------------------------------- C14
\* C14: in dev mode a dispatch chain is never probing, routing or loading,
\* the buffer is never written, and every dispatch has ended having printed
\* to the console only (after a warning when its arguments are invalid) and
\* returned true.
C14_DevModeOnlyDiagnostics ==
  dev =>
    /\ store = Absent
    /\ \A d \in Chains :
         /\ ch[d].pc \in {"idle", "done"}
         /\ ch[d].pc = "done"
              => /\ ch[d].ret = "true"
                 /\ ch[d].route = "none"
                 /\ ch[d].outcome = "devlog"
                 /\ ch[d].diag \in {"log", "warn+log"}

\* A dispatch with invalid arguments has completed in dev mode.
C14_Witness ==
  dev /\ \E d \in Chains : ch[d].pc = "done" /\ ch[d].diag = "warn+log" /\ ch[d].ret = "true"

\* --------------------------------------------------------------- C15
\* The arguments chain d carries are a textual severity and message and an
\* extra that is no primitive (an object or null).
CarriesValidArguments(c) ==
  /\ c.type.t = "string"
  /\ c.message.t = "string"
  /\ c.extra.t \in {"null", "object"}

\* C15: in normal mode a dispatch either is rejected, ending at once with
\* false returned, nothing probed, routed or printed and the buffer as it
\* was, or it goes on to the probe, and then its arguments are valid: a
\* dispatch with invalid arguments is rejected.
C15_InvalidArgumentsRejected ==
  [][\A d \in Chains :
       ~dev /\ ch[d].pc \in {"idle", "done"} /\ ch'[d] # ch[d]
         => \/ /\ ch'[d].outcome = "rejected"
               /\ ch'[d].pc = "done"
               /\ ch'[d].ret = "false"
               /\ ch'[d].route = "none"
               /\ ch'[d].diag = "none"
               /\ store' = store
            \/ /\ ch'[d].pc = "probing"
               /\ CarriesValidArguments(ch'[d])]_vars

\* A dispatch has been rejected in normal mode.
C15_Witness ==
  ~dev /\ \E d \in Chains : ch[d].pc = "done" /\ ch[d].outcome = "rejected" /\ ch[d].ret = "false"

\* --------------------------------------------------------------- C16
\* C16: a probe that does not resolve with a state ends the dispatch at
\* once, whatever the event: nothing is routed to sendLog or logLocally, the
\* buffer is neither read nor written, and console.error is the only effect.
C16_ProbeFailureDrops ==
  [][\A d \in Chains :
       ch[d].pc = "probing" /\ ch'[d].pc \notin {"probing", "probed"}
         => /\ ch'[d].pc = "done"
            /\ ch'[d].outcome = "probeFailed"
            /\ ch'[d].route = "none"
            /\ ch'[d].diag = "error"
            /\ ch'[d].loaded = Absent
            /\ store' = store]_vars

\* The probe of a dispatch has failed.
C16_Witness ==
  \E d \in Chains : ch[d].pc = "done" /\ ch[d].outcome = "probeFailed" /\ ch[d].route = "none"

\* --------------------------------------------------------------- C17
\* C17: the buffer formatLogEntry returns, which logLocally saves, holds
\* every entry of the buffer it was handed (the loaded one, or what the trim
\* left of it), unchanged, and exactly one entry more.
C17_FormatAddsOneEntry ==
  [][\A d \in Chains :
       ch[d].pc = "loading" /\ ch'[d].pc = "done" /\ ch'[d].outcome = "saved"
         => LET priorBuffer == AppendBase(ch[d].loaded)
            IN /\ Members(priorBuffer) \subseteq Members(store'.text)
               /\ Len(store'.text) = Len(priorBuffer) + 1]_vars

\* --------------------------------------------------------------- C18
\* The batch holds the entries of the text, all of them, in its order.
BatchOf(batch, text) ==
  /\ Len(batch.keys) = Len(text) /\ Len(batch.vals) = Len(text)
  /\ \A i \in 1..Len(text) : batch.keys[i] = text[i].key /\ batch.vals[i] = text[i].val

\* C18: a call of attemptToEmptyLocalLogs calls bulkSendLog at most once;
\* once its read has settled it ends with no send, no remove and the store
\* as it was when nothing is stored (or the read failed), and otherwise hands
\* bulkSendLog, once, the entries of the buffer it read, all of them, in the
\* stored order.
C18_OneBatchOfLoadedBuffer ==
  [][\A f \in Flushes :
       /\ fl'[f].sends <= 1
       /\ fl[f].pc = "loading" /\ fl'[f] # fl[f]
            => \/ /\ fl'[f].pc = "done"
                  /\ fl'[f].sends = 0
                  /\ fl'[f].result = "none" /\ fl'[f].remove = "none"
                  /\ store' = store
                  /\ fl[f].loaded.present => fl'[f].diag = "error"
               \/ /\ fl[f].loaded.present
                  /\ fl'[f].pc = "sending"
                  /\ fl'[f].sends = 1
                  /\ BatchOf(fl'[f].batch, fl[f].loaded.text)
       /\ fl[f].pc \in {"sending", "removing"} /\ fl'[f] # fl[f]
            => fl'[f].pc \in {"removing", "done"} /\ fl'[f].sends = fl[f].sends]_vars

\* A batch of two entries is being sent, in an order that is not the order
\* of the keys.
C18_Witness ==
  \E f \in Flushes :
    /\ fl[f].pc = "sending" /\ fl[f].sends = 1
    /\ Len(fl[f].batch.keys) >= 2
    /\ fl[f].batch.keys[1] > fl[f].batch.keys[2]
    /\ BatchOf(fl[f].batch, fl[f].loaded.text)

\* --------------------------------------------------------------- C19
\* The asyncRemoveItem flush chain f called after a successful send fails:
\* it returns an error or throws.
RemoveFails(f) == fl[f].pc = "removing" /\ fl[f].pending \in {"error", "throw"}

\* Flush chain f, whose last call ended with a remove that failed, starts
\* its next call and reads the buffer.
RetryAfterRemoveFailure(f) ==
  FlushEnded(fl[f]) = "removeFailed" /\ fl'[f] # fl[f] /\ fl'[f].pc = "loading"

\* What a failed remove does to the call in this step: the key stays as it
\* is, and once the failure is known the call ends with console.error,
\* without another send or remove.
RemoveFailureEndsCall(f) ==
  /\ FlushSettles(f) /\ fl'[f].pending \in {"error", "throw"} => store' = store
  /\ RemoveFails(f) /\ fl'[f] # fl[f]
       => /\ store' = store
          /\ fl'[f].pc = "done"
          /\ fl'[f].sends = 1
          /\ fl'[f].remove = fl[f].pending
          /\ fl'[f].diag = "error"

C20_DeliveredNeverBuffered ==
  \A f \in Flushes :
    FlushEnded(fl[f]) = "delivered"
      => \A m \in Members(hist.calls[f].batch) :
           m.key < hist.calls[f].at => ~(store.present /\ m \in Members(store.text))

====
